---- MODULE Spec2Model ----
(***************************************************************************)
(* Helianthus, scripts/ingest_wikidata.py: the two-phase Wikidata ingest.  *)
(*                                                                         *)
(* A run is one process: ingest_paintings (one paintings query, the Artist *)
(* looked up or created, one upsert per result row, one commit) followed   *)
(* by enrich_locations (one location query and one commit per Painting     *)
(* whose location is unset).  The session's view of the three tables is    *)
(* artists / paintings / locations; committed is what the database file    *)
(* holds once the open transaction is committed.  A process that dies      *)
(* (uncaught exception, kill) loses the open transaction.                  *)
(*                                                                         *)
(* Strings the code takes apart (URIs, date literals, coordinate literals) *)
(* are sequences of tokens; a value that may be None is a sequence of      *)
(* length 0 (None) or 1 (the value).                                       *)
(***************************************************************************)
EXTENDS Integers, Sequences, FiniteSets, TLC

VARIABLES
    world,       \* which source universe the runs draw their responses from (fixed)
    pc,          \* position of the running process, or how the last one ended
    artist_qid,  \* args.artist of the current run
    artist,      \* ingest_paintings: id of the Artist object artist, None before line 151
    q,           \* the wikidata_query call in progress: requests made, last outcome
    artists,     \* session view of table artists
    paintings,   \* session view of table paintings
    locations,   \* session view of table locations
    committed,   \* the committed database: [artists, paintings, locations]
    i,           \* ingest_paintings: rows of bindings consumed so far
    row,         \* ingest_paintings: the loop variable row
    inserted,    \* ingest_paintings: the counter inserted
    todo,        \* enrich_locations: the list paintings (ids, in query order)
    k,           \* enrich_locations: index in todo of the current painting
    bindings,    \* enrich_locations: bindings of the last location query
    resp,        \* scripted runs: the rows this call of ingest_paintings has consumed
    prev         \* scripted runs: artist and rows of each committed call, oldest first

vars == <<world, pc, artist_qid, artist, q, artists, paintings, locations, committed,
          i, row, inserted, todo, k, bindings, resp, prev>>

\* what the process holds in memory besides the session
locals == <<artist_qid, artist, q, i, row, inserted, todo, k, bindings>>

-----------------------------------------------------------------------------
(* Bounds and input domains *)

\* the paintings response has at most MaxRows rows (LIMIT {limit})
MaxRows == 3

\* scripted runs: the length of the longest response, and how many calls are made
MaxScript == 3
MaxCalls == 2

\* range(3) in wikidata_query
MaxAttempts == 3

None == <<>>
Some(x) == <<x>>

\* Python truthiness of an optional string: None and "" are falsy
\* (a tokenised string: URI, date, coordinates)
Truthy(v) == v /= None /\ v[1] /= <<>>

\* the same for a label, a string the code never takes apart
TruthyText(v) == v /= None /\ v[1] /= ""

\* The source universes.  Each varies one part of the responses and keeps the
\* rest small: "titles" the painting labels, "years" the painting dates,
\* "catalogue" both (fewer of each), "places" the location rows, "artists"
\* the artist ids and labels; "script" is the one scripted runs use.
Worlds == {"titles", "years", "catalogue", "places", "artists"}

Q5582 == <<"Q5582">>
Q296 == <<"Q296">>

ArtistQids(w) == IF w = "artists" THEN {Q5582, Q296} ELSE {Q5582}

ArtistNames(w) == IF w = "artists" THEN {None, Some("Vincent")} ELSE {Some("Vincent")}

Uri(qid) == <<"http:", "/", "/", "www.wikidata.org", "/", "entity", "/", qid>>

PaintingUris(w) ==
    IF w \in {"titles", "years", "script"}
    THEN {None, Some(Uri("Q1")), Some(<<"Q1">>), Some(Uri("Q2"))}
    ELSE {None, Some(Uri("Q1")), Some(Uri("Q2"))}

Labels(w) ==
    CASE w = "titles" -> {None, Some(""), Some("Irises"), Some("Sunflowers")}
      [] w = "catalogue" -> {None, Some("Irises")}
      [] OTHER -> {Some("Irises")}

Date(year) == <<year, "-", "01", "-", "01", "T", "00:00:00", "Z">>
BadDate == <<"-", "0500", "-", "01", "-", "01", "T", "00:00:00", "Z">>

DateLits(w) ==
    CASE w = "years" -> {None, Some(Date("1889")), Some(Date("1890")), Some(BadDate)}
      [] w \in {"catalogue", "script"} -> {None, Some(Date("1889")), Some(BadDate)}
      [] OTHER -> {None}

\* a row that binds nothing
EmptyRow == [painting |-> None, paintingLabel |-> None, date |-> None]

Rows(w) == [painting : PaintingUris(w), paintingLabel : Labels(w), date : DateLits(w)]

LocationUris(w) ==
    IF w = "places"
    THEN {None, Some(Uri("Q190804")), Some(<<"Q190804">>), Some(Uri("Q23402"))}
    ELSE {Some(Uri("Q190804"))}

LocationLabels(w) == IF w = "places" THEN {None, Some("Museum")} ELSE {Some("Museum")}

Point(lon, lat) == <<"Point(", lon, " ", lat, ")">>

CoordLits(w) ==
    IF w = "places"
    THEN {None, Some(Point("2.33", "48.85")), Some(Point("4.88", "52.36")),
          Some(Point("2.33", "abc")), Some(<<"Point(", "abc", ")">>)}
    ELSE {Some(Point("2.33", "48.85"))}

LocRows(w) ==
    [location : LocationUris(w), locationLabel : LocationLabels(w), coords : CoordLits(w)]

\* the location response: no rows, or a first row (later rows are never read)
LocBindings(w) == {<<>>} \cup {<<r>> : r \in LocRows(w)}

-----------------------------------------------------------------------------
(* Helpers *)

RECURSIVE LastSlash(_, _)
LastSlash(uri, n) ==
    IF n = 0 THEN 0
    ELSE IF uri[n] = "/" THEN n
    ELSE LastSlash(uri, n - 1)

\* uri.rsplit("/", 1)[-1]
qid_from_uri(uri) ==
    SubSeq(uri, LastSlash(uri, Len(uri)) + 1, Len(uri))

\* s.replace(tok, "") on a token sequence
Remove(s, tok) == SelectSeq(s, LAMBDA t : t /= tok)

YearTokens == {"1889", "1890"}
YearValue(t) == IF t = "1889" THEN 1889 ELSE 1890
MonthTokens == {"01", "05", "12"}
DayTokens == {"01", "15"}
TimeTokens == {"00:00:00"}

\* datetime.fromisoformat(date_val.replace("Z", "")).year, None when it raises
\* or when date_val is falsy
YearOf(date_val) ==
    IF ~Truthy(date_val) THEN None
    ELSE LET s == Remove(date_val[1], "Z")
             dateOk == /\ Len(s) >= 5
                       /\ s[1] \in YearTokens
                       /\ s[2] = "-"
                       /\ s[3] \in MonthTokens
                       /\ s[4] = "-"
                       /\ s[5] \in DayTokens
             timeOk == \/ Len(s) = 5
                       \/ /\ Len(s) = 7
                          /\ s[6] = "T"
                          /\ s[7] \in TimeTokens
         IN IF dateOk /\ timeOk THEN Some(YearValue(s[1])) ELSE None

\* float(token) for the numeric tokens of the model, in hundredths of a degree
FloatTokens == {"2.33", "48.85", "4.88", "52.36"}
FloatValue(t) ==
    CASE t = "2.33" -> 233
      [] t = "48.85" -> 4885
      [] t = "4.88" -> 488
      [] OTHER -> 5236

RECURSIVE Split(_)
\* str.split(): the maximal runs of tokens between whitespace tokens
Split(s) ==
    IF s = <<>> THEN <<>>
    ELSE IF Head(s) = " " THEN Split(Tail(s))
    ELSE LET rest == Split(Tail(s))
         IN IF Len(s) > 1 /\ s[2] /= " "
            THEN <<(<<Head(s)>> \o Head(rest))>> \o Tail(rest)
            ELSE <<(<<Head(s)>>)>> \o rest

IsFloat(piece) == Len(piece) = 1 /\ piece[1] \in FloatTokens

\* lines 245-255: [latitude, longitude] parsed from the coords literal
Coordinates(coords_val) ==
    IF ~Truthy(coords_val) THEN [latitude |-> None, longitude |-> None]
    ELSE LET coords_str == Remove(Remove(coords_val[1], "Point("), ")")
             parts == Split(coords_str)
         IN IF Len(parts) = 2 /\ IsFloat(parts[1])
            THEN IF IsFloat(parts[2])
                 THEN [latitude |-> Some(FloatValue(parts[2][1])),
                       longitude |-> Some(FloatValue(parts[1][1]))]
                 \* float(lat_str) raised after longitude was assigned
                 ELSE [latitude |-> None, longitude |-> Some(FloatValue(parts[1][1]))]
            ELSE [latitude |-> None, longitude |-> None]

-----------------------------------------------------------------------------
(* The store *)

Max(S) == CHOOSE x \in S : \A y \in S : y <= x

\* the integer primary key a flush assigns to a new row of table T
NextId(T) == IF T = {} THEN 1 ELSE Max({x.id : x \in T}) + 1

\* session.query(M).filter_by(wikidata_id=qid).first(): None or the first match
First(T, qid) ==
    LET hits == {x \in T : x.wikidata_id = qid}
    IN IF hits = {} THEN None
       ELSE Some(CHOOSE x \in hits : \A y \in hits : x.id <= y.id)

\* session.commit(): what the session holds becomes the committed database
Commit(as, ps, ls) == [artists |-> as, paintings |-> ps, locations |-> ls]

IdleCall == [requests |-> 0, last |-> "none", status |-> "idle"]
NewCall == [requests |-> 0, last |-> "none", status |-> "running"]

QueryPcs == {"p1_query", "p1_label", "p2_query"}
PaintingsPcs == {"p1_query", "p1_label", "p1_rows"}
EnrichmentPcs == {"p2_select", "p2_loop", "p2_query"}
RunningPcs == PaintingsPcs \cup EnrichmentPcs
AbortedPcs == {"aborted_error", "aborted_retries"}
EndedPcs == {"idle", "done", "returned", "killed"} \cup AbortedPcs

InitWith(w) ==
    /\ world = w
    /\ pc = "idle"
    /\ artist_qid = <<>>
    /\ artist = None
    /\ q = IdleCall
    /\ artists = {}
    /\ paintings = {}
    /\ locations = {}
    /\ committed = Commit({}, {}, {})
    /\ i = 0
    /\ row = EmptyRow
    /\ inserted = 0
    /\ todo = <<>>
    /\ k = 0
    /\ bindings = <<>>
    /\ resp = <<>>
    /\ prev = <<>>

Init == \E w \in Worlds : InitWith(w)

-----------------------------------------------------------------------------
(* The process ends: its memory is gone and the open transaction is lost *)

Exit(how, call) ==
    /\ pc' = how
    /\ q' = call
    /\ artists' = committed.artists
    /\ paintings' = committed.paintings
    /\ locations' = committed.locations
    /\ committed' = committed
    /\ artist_qid' = <<>>
    /\ artist' = None
    /\ i' = 0
    /\ row' = EmptyRow
    /\ inserted' = 0
    /\ todo' = <<>>
    /\ k' = 0
    /\ bindings' = <<>>
    /\ resp' = <<>>
    /\ UNCHANGED <<world, prev>>

\* the process is killed
Kill ==
    /\ pc \in RunningPcs
    /\ Exit("killed", IdleCall)

-----------------------------------------------------------------------------
(* wikidata_query, lines 86-106 *)

\* except Exception: every failure is retried
CaughtAny(outcome) == outcome /= "ok"

\* line 102: the only exception the loop catches is ReadTimeout
Caught(outcome) == outcome = "timeout"

\* a loop that runs once more than range(3)
MayRequestOnceMore(call) == call.status = "running" /\ call.requests <= MaxAttempts

\* line 92: for attempt in range(3)
MayRequest(call) == call.status = "running" /\ call.requests < MaxAttempts

\* lines 93-104: one requests.get and what becomes of the call
\*   "ok": raise_for_status passed, return r.json()
\*   "timeout": ReadTimeout, print, sleep(3), next iteration
\*   "error": any other exception (HTTP 4xx/5xx, connection error), not caught:
\*            it leaves ingest_paintings / enrich_locations and ends the process
Request(outcome) ==
    /\ pc \in QueryPcs
    /\ MayRequest(q)
    /\ LET call == [requests |-> q.requests + 1,
                    last |-> outcome,
                    status |-> IF outcome = "ok" THEN "returned"
                               ELSE IF Caught(outcome) THEN "running"
                               ELSE "raised"]
       IN IF call.status = "raised"
          THEN Exit("aborted_error", call)
          ELSE /\ q' = call
               /\ UNCHANGED <<world, pc, artist_qid, artist, artists, paintings, locations,
                              committed, i, row, inserted, todo, k, bindings, resp, prev>>

RequestOk == Request("ok")

RequestTimeout == Request("timeout")

RequestError == Request("error")

\* line 106: the loop ran out, raise Exception("Wikidata query failed after retries")
RetriesExhausted ==
    /\ pc \in QueryPcs
    /\ q.status = "running"
    /\ ~MayRequest(q)
    /\ Exit("aborted_retries", [q EXCEPT !.status = "raised"])

-----------------------------------------------------------------------------
(* Phase 1, ingest_paintings, lines 134-206 *)

\* lines 292-294 and 147: ensure_session(), ingest_paintings calls wikidata_query
Start(a) ==
    /\ pc \in EndedPcs
    /\ artist_qid' = a
    /\ pc' = "p1_query"
    /\ q' = NewCall
    /\ UNCHANGED <<world, artist, artists, paintings, locations, committed,
                   i, row, inserted, todo, k, bindings>>

StartRun ==
    /\ \E a \in ArtistQids(world) : Start(a)
    /\ UNCHANGED <<resp, prev>>

\* lines 151-155 and 166: the Artist exists, no label query
ArtistFound ==
    /\ pc = "p1_query"
    /\ q.status = "returned"
    /\ First(artists, artist_qid) /= None
    /\ artist' = Some(First(artists, artist_qid)[1].id)
    /\ pc' = "p1_rows"
    /\ q' = IdleCall
    /\ UNCHANGED <<world, artist_qid, artists, paintings, locations, committed,
                   i, row, inserted, todo, k, bindings, resp, prev>>

\* the label is fetched on every run, the Artist stored or not
ArtistRefetched ==
    /\ pc = "p1_query"
    /\ q.status = "returned"
    /\ pc' = "p1_label"
    /\ q' = NewCall
    /\ UNCHANGED <<world, artist_qid, artist, artists, paintings, locations, committed,
                   i, row, inserted, todo, k, bindings, resp, prev>>

\* the Artist row written and committed before its label is fetched
ArtistAddedFirst ==
    /\ pc = "p1_query"
    /\ q.status = "returned"
    /\ First(artists, artist_qid) = None
    /\ artists' = artists \cup {[id |-> NextId(artists), wikidata_id |-> artist_qid,
                                  name |-> None]}
    /\ committed' = [committed EXCEPT !.artists = artists']
    /\ pc' = "p1_label"
    /\ q' = NewCall
    /\ UNCHANGED <<world, artist_qid, artist, paintings, locations,
                   i, row, inserted, todo, k, bindings, resp, prev>>

\* lines 151-156 and 121: no such Artist, fetch_artist_label calls wikidata_query
ArtistMissing ==
    /\ pc = "p1_query"
    /\ q.status = "returned"
    /\ First(artists, artist_qid) = None
    /\ pc' = "p1_label"
    /\ q' = NewCall
    /\ UNCHANGED <<world, artist_qid, artist, artists, paintings, locations, committed,
                   i, row, inserted, todo, k, bindings, resp, prev>>

\* lines 158-164: Artist(wikidata_id, name), add, flush
\* an Artist whose label query found no label is not added to the session
NewArtistLabelled(T, qid, name) ==
    IF name = None THEN T
    ELSE T \cup {[id |-> NextId(T), wikidata_id |-> qid, name |-> name]}

NewArtist(T, qid, name) ==
    T \cup {[id |-> NextId(T), wikidata_id |-> qid, name |-> name]}

\* lines 122-127 and 158-166: the label (None when no bindings), the new Artist
ArtistCreated ==
    /\ pc = "p1_label"
    /\ q.status = "returned"
    /\ \E name \in ArtistNames(world) : artists' = NewArtist(artists, artist_qid, name)
    /\ artist' = Some(NextId(artists))
    /\ pc' = "p1_rows"
    /\ q' = IdleCall
    /\ UNCHANGED <<world, artist_qid, paintings, locations, committed,
                   i, row, inserted, todo, k, bindings, resp, prev>>

\* painting.title = p_label, the "always refresh" variant
MergeTitleOverwrite(p_label, title) == p_label

\* line 202: painting.title = p_label or painting.title
MergeTitle(p_label, title) == IF TruthyText(p_label) THEN p_label ELSE title

\* painting.year = painting.year or year: a stored year is never refreshed
MergeYearFill(year, old) == IF old /= None THEN old ELSE year

\* line 203: painting.year = year or painting.year (0 is falsy)
MergeYear(year, old) == IF year /= None /\ year[1] /= 0 THEN year ELSE old

\* if not p_uri or not date_val: continue
SkippedUndated(r) == ~Truthy(r.painting) \/ ~Truthy(r.date)

\* lines 174-175: if not p_uri: continue
Skipped(r) == ~Truthy(r.painting)

\* a lookup by the URI itself, qid_from_uri forgotten
IsNewPaintingByUri(T, r) == First(T, r.painting[1]) = None

\* lines 188-192: no Painting has the row's id
IsNewPainting(T, r) == First(T, qid_from_uri(r.painting[1])) = None

\* lines 177-203: the table paintings after the upsert of a row that has a URI
Upsert(T, artist_id, r) ==
    LET p_qid == qid_from_uri(r.painting[1])
        year == YearOf(r.date)
    IN IF IsNewPainting(T, r)
       THEN T \cup {[id |-> NextId(T), wikidata_id |-> p_qid,
                     title |-> r.paintingLabel, year |-> year,
                     artist_id |-> artist_id, location_id |-> None]}
       ELSE LET old == First(T, p_qid)[1]
            IN (T \ {old}) \cup
               {[old EXCEPT !.title = MergeTitle(r.paintingLabel, old.title),
                            !.year = MergeYear(year, old.year)]}

\* inserted += 1 outside the if, so that updates are counted too
CountEvery(n, T, r) == n + 1

\* inserted += 1 on the update branch instead
CountUpdates(n, T, r) == IF IsNewPainting(T, r) THEN n ELSE n + 1

\* lines 192-200: inserted += 1 on the insert branch
Count(n, T, r) == IF IsNewPainting(T, r) THEN n + 1 ELSE n

\* one iteration of the loop of lines 169-203, on row r
ProcessRow(r) ==
    /\ pc = "p1_rows"
    /\ i' = i + 1
    /\ row' = r
    /\ IF Skipped(r)
       THEN UNCHANGED <<paintings, inserted>>
       ELSE /\ paintings' = Upsert(paintings, artist[1], r)
            /\ inserted' = Count(inserted, paintings, r)
    /\ UNCHANGED <<world, pc, artist_qid, artist, q, artists, locations, committed,
                   todo, k, bindings>>

\* the response has another row, any row
IngestRow ==
    /\ i < MaxRows
    /\ \E r \in Rows(world) : ProcessRow(r)
    /\ UNCHANGED <<resp, prev>>

\* ingest_paintings returns without session.commit()
ReturnUncommitted(then) ==
    /\ pc = "p1_rows"
    /\ pc' = then
    /\ artist' = None
    /\ i' = 0
    /\ row' = EmptyRow
    /\ inserted' = 0
    /\ UNCHANGED <<world, artist_qid, q, artists, paintings, locations, committed,
                   todo, k, bindings>>

\* lines 205-206: the loop is over, session.commit(), print(inserted), return;
\* the locals of ingest_paintings are gone
CommitPaintings(then) ==
    /\ pc = "p1_rows"
    /\ committed' = Commit(artists, paintings, locations)
    /\ pc' = then
    /\ artist' = None
    /\ i' = 0
    /\ row' = EmptyRow
    /\ inserted' = 0
    /\ UNCHANGED <<world, artist_qid, q, artists, paintings, locations,
                   todo, k, bindings>>

\* lines 294-295: ingest_paintings returned, enrich_locations is called
EndPaintings ==
    /\ CommitPaintings("p2_select")
    /\ UNCHANGED <<resp, prev>>

-----------------------------------------------------------------------------
(* Phase 2, enrich_locations, lines 212-276 *)

\* the filter on location_id left out: every Painting is selected
UnsetAll(T) == T

\* .first() in place of .all(): only the oldest unset Painting is selected
UnsetFirst(T) ==
    {p \in T : p.location_id = None
                /\ \A o \in T : o.location_id = None => p.id <= o.id}

\* lines 215-217: Painting.location_id == None
Unset(T) == {p \in T : p.location_id = None}

\* the sequences that list each element of S once
\* a list as long as the selection but with rows repeated, as a join would give
OrdersRepeating(S) == [1..Cardinality(S) -> S]

Orders(S) ==
    {s \in [1..Cardinality(S) -> S] : \A x \in S : \E n \in DOMAIN s : s[n] = x}

\* lines 215-217: the list paintings, in the order the database returns it
SelectUnset ==
    /\ pc = "p2_select"
    /\ \E s \in Orders({p.id : p \in Unset(paintings)}) : todo' = s
    /\ k' = 1
    /\ pc' = "p2_loop"
    /\ UNCHANGED <<world, artist_qid, artist, q, artists, paintings, locations,
                   committed, i, row, inserted, bindings, resp, prev>>

\* lines 219-228: the next painting of the list, its query begins
QueryLocation ==
    /\ pc = "p2_loop"
    /\ k <= Len(todo)
    /\ pc' = "p2_query"
    /\ q' = NewCall
    /\ UNCHANGED <<world, artist_qid, artist, artists, paintings, locations,
                   committed, i, row, inserted, todo, k, bindings, resp, prev>>

\* lines 231-232 and 240-241: no bindings, or a first row without a location URI
NoLocation(b) == b = <<>> \/ ~Truthy(b[1].location)

\* an upsert that refreshes the coordinates of a Location it finds
ResolveLocationRefresh(T, r) ==
    LET loc_qid == qid_from_uri(r.location[1])
        c == Coordinates(r.coords)
    IN IF First(T, loc_qid) = None
       THEN T \cup {[id |-> NextId(T), wikidata_id |-> loc_qid,
                     name |-> r.locationLabel,
                     latitude |-> c.latitude, longitude |-> c.longitude]}
       ELSE {IF l.wikidata_id = loc_qid
             THEN [l EXCEPT !.latitude = c.latitude, !.longitude = c.longitude]
             ELSE l : l \in T}

\* lines 243-269: the table locations after the lookup of the row's location
ResolveLocation(T, r) ==
    LET loc_qid == qid_from_uri(r.location[1])
        c == Coordinates(r.coords)
    IN IF First(T, loc_qid) = None
       THEN T \cup {[id |-> NextId(T), wikidata_id |-> loc_qid,
                     name |-> r.locationLabel,
                     latitude |-> c.latitude, longitude |-> c.longitude]}
       ELSE T

\* the table replaced by the one row the assignment touched
AttachOnly(T, painting_id, location_id) ==
    {[p EXCEPT !.location_id = Some(location_id)] : p \in {x \in T : x.id = painting_id}}

\* line 271: painting.location = location
Attach(T, painting_id, location_id) ==
    {IF p.id = painting_id THEN [p EXCEPT !.location_id = Some(location_id)] ELSE p
       : p \in T}

\* no commit inside the loop: the database stays as it was
CommitLater(old, as, ps, ls) == old

\* line 272: session.commit() inside the loop; old is the database before it
CommitEach(old, as, ps, ls) == Commit(as, ps, ls)

\* lines 229-274: the rest of one iteration, on the bindings b of the query
LocationResult(b) ==
    /\ pc = "p2_query"
    /\ q.status = "returned"
    /\ bindings' = b
    /\ IF NoLocation(b)
       THEN UNCHANGED <<paintings, locations, committed>>
       ELSE LET locs == ResolveLocation(locations, b[1])
                loc == First(locs, qid_from_uri(b[1].location[1]))[1]
                ps == Attach(paintings, todo[k], loc.id)
            IN /\ locations' = locs
               /\ paintings' = ps
               /\ committed' = CommitEach(committed, artists, ps, locs)
    /\ k' = k + 1
    /\ pc' = "p2_loop"
    /\ q' = IdleCall
    /\ UNCHANGED <<world, artist_qid, artist, artists, i, row, inserted, todo, resp, prev>>

EnrichPainting == \E b \in LocBindings(world) : LocationResult(b)

\* lines 276 and 297: the list is exhausted, the process exits
EnrichmentDone ==
    /\ pc = "p2_loop"
    /\ k > Len(todo)
    /\ Exit("done", IdleCall)

-----------------------------------------------------------------------------

Next ==
    \/ StartRun
    \/ RequestOk
    \/ RequestTimeout
    \/ RequestError
    \/ RetriesExhausted
    \/ ArtistFound
    \/ ArtistMissing
    \/ ArtistCreated
    \/ IngestRow
    \/ EndPaintings
    \/ SelectUnset
    \/ QueryLocation
    \/ EnrichPainting
    \/ EnrichmentDone
    \/ Kill

Spec == Init /\ [][Next]_vars

\* the process is one thread without blocking calls other than the bounded
\* requests: while it lives it takes its next step
FairSpec == Spec /\ WF_vars(Next)

-----------------------------------------------------------------------------
(* Scripted runs: ingest_paintings called up to MaxCalls times on one store, *)
(* the source unchanged between the calls.  The first committed call draws   *)
(* its rows freely and records them; every later call is given the same      *)
(* artist id and is answered with the same rows.                             *)

Scripted == prev /= <<>>

StartCall ==
    /\ Len(prev) < MaxCalls
    /\ \E a \in (IF Scripted THEN {prev[1].artist_qid} ELSE ArtistQids(world)) : Start(a)
    /\ resp' = <<>>
    /\ UNCHANGED prev

ScriptedRow ==
    /\ i < (IF Scripted THEN Len(prev[1].rows) ELSE MaxScript)
    /\ \E r \in (IF Scripted THEN {prev[1].rows[i + 1]} ELSE Rows(world)) :
          ProcessRow(r)
          /\ resp' = Append(resp, r)
    /\ UNCHANGED prev

ScriptedReturn ==
    /\ Scripted => i = Len(prev[1].rows)
    /\ CommitPaintings("returned")
    /\ prev' = Append(prev, [artist_qid |-> artist_qid, rows |-> resp])
    /\ UNCHANGED resp

NextScripted ==
    \/ StartCall
    \/ RequestOk
    \/ RequestTimeout
    \/ RequestError
    \/ RetriesExhausted
    \/ ArtistFound
    \/ ArtistMissing
    \/ ArtistCreated
    \/ ScriptedRow
    \/ ScriptedReturn
    \/ Kill

SpecScripted == InitWith("script") /\ [][NextScripted]_vars

-----------------------------------------------------------------------------
(* Claims *)

Tables(store) == {store.artists, store.paintings, store.locations}

Session == Commit(artists, paintings, locations)

UniqueIds(T) == \A x \in T : \A y \in T : x.wikidata_id = y.wikidata_id => x = y

Ids(T) == {x.wikidata_id : x \in T}

Row(T, id) == CHOOSE x \in T : x.id = id

\* C1: in every reachable state, in the session and in the committed database,
\* no two Artist rows, no two Painting rows and no two Location rows carry the
\* same wikidata_id.
C1_ExternalIdsUnique ==
    /\ \A T \in Tables(Session) : UniqueIds(T)
    /\ \A T \in Tables(committed) : UniqueIds(T)

\* C1 witness: a later run has just processed a row for a Painting that was
\* already committed (the painting URI is repeated), and two committed
\* Paintings share one Location (the location URI was repeated).
C1_Witness ==
    /\ pc = "p1_rows"
    /\ i >= 1
    /\ inserted = 0
    /\ Truthy(row.painting)
    /\ qid_from_uri(row.painting[1]) \in Ids(committed.paintings)
    /\ \E x \in committed.paintings : \E y \in committed.paintings :
          x /= y /\ x.location_id /= None /\ x.location_id = y.location_id

\* C2: when ingest_paintings is called again with the same artist id and is
\* answered with the same rows as the committed call before it, the call
\* commits the same Artist and Painting rows by external id, no more rows than
\* before, and its counter inserted is 0 when it returns.
C2_Idempotent ==
    [][(/\ Len(prev) >= 1
        /\ Len(prev') = Len(prev) + 1
        /\ prev'[Len(prev')] = prev[Len(prev)])
         => /\ inserted = 0
            /\ Ids(committed'.artists) = Ids(committed.artists)
            /\ Ids(committed'.paintings) = Ids(committed.paintings)
            /\ Cardinality(committed'.artists) = Cardinality(committed.artists)
            /\ Cardinality(committed'.paintings) = Cardinality(committed.paintings)]_vars

\* C2 witness: the second call has returned, after three rows that name two
\* different paintings.
C2_Witness ==
    /\ pc = "returned"
    /\ Len(prev) = 2
    /\ prev[2] = prev[1]
    /\ Len(prev[1].rows) = 3
    /\ Cardinality(committed.paintings) = 2

NoTitle(r) == r.paintingLabel = None

NoYear(r) == r.date = None \/ r.date = Some(BadDate)

\* C3: a step of the loop of ingest_paintings keeps every Painting row; a
\* title that was not null is not null afterwards, and is the same when the
\* row has no title; a year that was not null is not null afterwards, and is
\* the same when the row has no date or an unparseable one.
C3_NonDestructive ==
    [][(pc = "p1_rows" /\ i' = i + 1)
         => \A p \in paintings :
               \E n \in paintings' :
                  /\ n.id = p.id
                  /\ n.wikidata_id = p.wikidata_id
                  /\ p.title /= None => n.title /= None
                  /\ (p.title /= None /\ NoTitle(row')) => n.title = p.title
                  /\ p.year /= None => n.year /= None
                  /\ (p.year /= None /\ NoYear(row')) => n.year = p.year]_vars

\* C3 witness: the row just processed names a Painting that has a title and a
\* year, and carries no title and an unparseable date.
C3_Witness ==
    /\ pc = "p1_rows"
    /\ i >= 1
    /\ Truthy(row.painting)
    /\ row.paintingLabel = None
    /\ row.date = Some(BadDate)
    /\ \E p \in committed.paintings :
          /\ p.wikidata_id = qid_from_uri(row.painting[1])
          /\ p.title = Some("Irises")
          /\ p.year = Some(1889)
          /\ p \in paintings

\* a step of enrich_locations that found a location row in the bindings
Observed == pc = "p2_query" /\ pc' = "p2_loop" /\ ~NoLocation(bindings')

\* the well-formed coordinate literals of the model, Point(lon lat)
WellFormed == {Some(Point("2.33", "48.85")), Some(Point("4.88", "52.36"))}

\* C4: when a step of enrich_locations observes, with a well-formed
\* Point(lon lat), the id of a Location stored with null latitude and
\* longitude, the stored Location carries that latitude and longitude after
\* the step.
C4_NullCoordinatesFilled ==
    [][(Observed /\ bindings'[1].coords \in WellFormed)
         => LET lit == bindings'[1].coords[1]
            IN \A l \in locations :
                  (/\ l.wikidata_id = qid_from_uri(bindings'[1].location[1])
                   /\ l.latitude = None
                   /\ l.longitude = None)
                  => \E n \in locations' :
                        /\ n.id = l.id
                        /\ n.latitude = Some(FloatValue(lit[4]))
                        /\ n.longitude = Some(FloatValue(lit[2]))]_vars

KeepsCoordinates(T, U) ==
    \A l \in T :
       (l.latitude /= None \/ l.longitude /= None)
       => \E n \in U :
             /\ n.id = l.id
             /\ l.latitude /= None => n.latitude = l.latitude
             /\ l.longitude /= None => n.longitude = l.longitude

\* C5: no step changes a latitude or a longitude that is not null, in the
\* session or in the committed database: the Location row stays and keeps it.
C5_CoordinatesWriteOnce ==
    [][/\ KeepsCoordinates(locations, locations')
       /\ KeepsCoordinates(committed.locations, committed'.locations)]_vars

\* C5 witness: the last location query returned, for a Location stored with a
\* latitude, a well-formed literal with another latitude.
C5_Witness ==
    /\ pc = "p2_loop"
    /\ ~NoLocation(bindings)
    /\ bindings[1].coords = Some(Point("4.88", "52.36"))
    /\ \E l \in committed.locations :
          /\ l.wikidata_id = qid_from_uri(bindings[1].location[1])
          /\ l.latitude = Some(4885)
          /\ l.longitude = Some(233)

KeepsLocation(T, U) ==
    \A p \in T :
       p.location_id /= None
       => \E n \in U : n.id = p.id /\ n.location_id = p.location_id

\* C6: no step of either phase, of this run or a later one, clears the
\* Location reference of a Painting or makes it refer to another Location.
C6_LocatedForever ==
    [][/\ KeepsLocation(paintings, paintings')
       /\ KeepsLocation(committed.paintings, committed'.paintings)]_vars

\* C6 witness: a Painting located by an earlier run is still located while a
\* later run, having processed a row for it in its paintings phase, has
\* attached another Painting to another Location.
C6_Witness ==
    /\ pc = "p2_loop"
    /\ k = 2
    /\ ~NoLocation(bindings)
    /\ \E p \in committed.paintings : \E o \in committed.paintings :
          /\ o.id = todo[1]
          /\ p.id < o.id
          /\ p.location_id /= None
          /\ o.location_id /= None
          /\ o.location_id /= p.location_id

\* a step that issues a request of the current call
Requests == q'.requests = q.requests + 1

\* C7: a call of wikidata_query makes at most 3 requests and returns only
\* after at least one; a request is the first of its call or follows a
\* request of the same call that timed out; once a response is returned the
\* call makes no further request; and a call whose 3 requests all timed out
\* returns nothing: it raises, the process ends there and the open
\* transaction is lost.
C7_BoundedRetry ==
    /\ [](/\ q.requests \in 0..3
          /\ q.status = "returned" => (q.requests >= 1 /\ q.last = "ok")
          /\ q.status = "running" => q.last \in {"none", "timeout"}
          /\ q.last = "none" <=> q.requests = 0
          /\ pc = "aborted_retries"
             => (q.status = "raised" /\ q.requests = 3 /\ q.last = "timeout"))
    /\ [][/\ q'.requests /= q.requests => (Requests \/ q'.requests = 0)
          /\ Requests => (q.status = "running" /\ q.last \in {"none", "timeout"})
          /\ q.status = "returned" => ~Requests
          /\ (q.status = "running" /\ q.requests = 3 /\ q.last = "timeout")
             => /\ pc' \in {"aborted_retries", "killed"}
                /\ q'.status /= "returned"
                /\ Commit(artists', paintings', locations') = committed
                /\ committed' = committed]_vars

\* C7 witness: the third request of a call timed out and the call raised.
C7_Witness ==
    /\ pc = "aborted_retries"
    /\ q = [requests |-> 3, last |-> "timeout", status |-> "raised"]

\* C8: a request that fails otherwise than by a read timeout ends its call on
\* that attempt, whichever it is: the call raises, the process ends, and the
\* call makes no further request.
C8_NoRetryOnError ==
    /\ [](q.last = "error" => (q.status = "raised" /\ pc = "aborted_error"))
    /\ [][/\ (Requests /\ q'.last = "error")
             => (q'.status = "raised" /\ pc' = "aborted_error")
          /\ q.status = "raised" => ~Requests]_vars

\* C8 witness: the second request of a call, made after a timeout, failed with
\* an error and the call raised.
C8_Witness ==
    /\ pc = "aborted_error"
    /\ q = [requests |-> 2, last |-> "error", status |-> "raised"]

\* a step of the loop of ingest_paintings, on the row row'
RowStep == pc = "p1_rows" /\ i' = i + 1

Dated(r) == r.date = Some(Date("1889"))

\* the rows of a response of the end-to-end scenario, in any order: a dated
\* row and an undated row that name two paintings, and a row without a URI
Scenario(rows) ==
    /\ Len(rows) = 3
    /\ \E a \in 1..3 : \E b \in 1..3 : \E c \in 1..3 :
          /\ Truthy(rows[a].painting) /\ Dated(rows[a])
          /\ Truthy(rows[b].painting) /\ rows[b].date = None
          /\ qid_from_uri(rows[a].painting[1]) /= qid_from_uri(rows[b].painting[1])
          /\ rows[c].painting = None

\* C9: a row without a painting URI changes no Painting and does not count,
\* and the loop goes on; a row with a URI and no date, or a date that does not
\* parse, leaves a Painting with its id, created with a null year if there was
\* none; and a call that starts on an empty store and commits the three rows
\* of the scenario leaves exactly 2 Paintings and 1 Artist, the year of the
\* dated row set and that of the undated row null, having counted 2.
C9_AnomaliesTolerated ==
    [][/\ RowStep
          => /\ pc' = "p1_rows"
             /\ row'.painting = None
                => (paintings' = paintings /\ inserted' = inserted)
             /\ (Truthy(row'.painting) /\ NoYear(row'))
                => LET id == qid_from_uri(row'.painting[1])
                   IN /\ id \in Ids(paintings')
                      /\ id \notin Ids(paintings)
                         => /\ \A p \in paintings' :
                                  p.wikidata_id = id => p.year = None
                            /\ inserted' = inserted + 1
       /\ (Len(prev') = 1 /\ prev = <<>> /\ Scenario(resp)
             /\ committed = Commit({}, {}, {}))
          => /\ Cardinality(committed'.paintings) = 2
             /\ Cardinality(committed'.artists) = 1
             /\ inserted = 2
             /\ \A n \in 1..3 : \A p \in committed'.paintings :
                   (/\ Truthy(resp[n].painting)
                    /\ p.wikidata_id = qid_from_uri(resp[n].painting[1]))
                   => p.year = (IF Dated(resp[n]) THEN Some(1889) ELSE None)]_vars

\* C9 witness: the first call returned after the three rows of the scenario.
C9_Witness ==
    /\ pc = "returned"
    /\ Len(prev) = 1
    /\ Scenario(prev[1].rows)
    /\ prev[1].rows[3].painting = None
    /\ Cardinality(committed.paintings) = 2

Located(T, id) == \E p \in T : p.id = id /\ p.location_id /= None

\* C10: during enrich_locations everything the loop has attached is committed;
\* when the process ends at the k-th painting of the list (its query raised,
\* or the process was killed), the committed database is left as it is, with
\* every attachment made for the paintings before the k-th, and the k-th and
\* later paintings have no Location.
C10_PartialProgressKept ==
    /\ [](pc \in {"p2_loop", "p2_query"}
            => /\ committed = Session
               /\ \A n \in k..Len(todo) : ~Located(committed.paintings, todo[n]))
    /\ [][(pc = "p2_query" /\ pc' \in AbortedPcs \cup {"killed"})
            => /\ committed' = committed
               /\ Commit(artists', paintings', locations') = committed
               /\ \A n \in 1..(k - 1) :
                     Row(committed'.paintings, todo[n]) = Row(paintings, todo[n])
               /\ \A n \in k..Len(todo) :
                     ~Located(committed'.paintings, todo[n])]_vars

\* C10 witness: the query for the second painting of the list has timed out
\* three times, after the first painting of the list was attached.
C10_Witness ==
    /\ pc = "p2_query"
    /\ k = 2
    /\ q.requests = 3
    /\ q.last = "timeout"
    /\ ~NoLocation(bindings)
    /\ Located(committed.paintings, todo[1])
    /\ ~Located(committed.paintings, todo[2])

Died == AbortedPcs \cup {"killed"}

\* C11: while ingest_paintings waits for the paintings query or for the
\* artist-label query the session holds nothing that is not committed, and
\* no step of the paintings phase before its commit changes the committed
\* database; when one of the two queries raises, the database and the session
\* a later run opens are exactly the database the phase started with.
C11_AbortLeavesNoPartialRows ==
    /\ [](/\ pc \in {"p1_query", "p1_label"} => Session = committed
          /\ pc \in AbortedPcs => Session = committed)
    /\ [][/\ (pc \in PaintingsPcs /\ pc' \in PaintingsPcs \cup Died)
             => committed' = committed
          /\ (pc \in {"p1_query", "p1_label"} /\ pc' \in AbortedPcs)
             => /\ committed' = committed
                /\ Commit(artists', paintings', locations') = committed]_vars

\* C11 witness: on a store that holds the Paintings of another artist, the
\* artist-label query of a run has timed out three times.
C11_Witness ==
    /\ pc = "p1_label"
    /\ q = [requests |-> 3, last |-> "timeout", status |-> "running"]
    /\ committed.paintings /= {}
    /\ artist_qid \notin Ids(committed.artists)

UnsetIds(T) == {p.id : p \in {x \in T : x.location_id = None}}

Range(s) == {s[n] : n \in DOMAIN s}

\* C12: a location query that returns no rows, or a first row without a
\* location URI, changes no row of the session or of the committed database,
\* so the Painting stays unset; and the list of every enrichment phase holds
\* every Painting that is unset when the phase starts.
C12_UnsetSelectedAgain ==
    [][/\ (pc = "p2_query" /\ pc' = "p2_loop" /\ NoLocation(bindings'))
          => /\ UNCHANGED <<artists, paintings, locations, committed>>
             /\ todo[k] \in UnsetIds(committed'.paintings)
       /\ (pc = "p2_select" /\ pc' = "p2_loop")
          => /\ UnsetIds(committed.paintings) \subseteq Range(todo')
             /\ UnsetIds(paintings) \subseteq Range(todo')]_vars

\* C12 witness: a Painting as old as one an earlier run located is the only
\* one in the list of this run, and its query found no location again.
C12_Witness ==
    /\ pc = "p2_loop"
    /\ k = 2
    /\ Len(todo) = 1
    /\ NoLocation(bindings)
    /\ \E x \in committed.paintings : \E p \in committed.paintings :
          /\ x.id = todo[1]
          /\ x.location_id = None
          /\ p.location_id /= None
          /\ x.id < p.id

\* C13: enrich_locations is entered only from the commit of ingest_paintings,
\* with everything the session holds committed; once in it the process never
\* goes back to a step of ingest_paintings; a paintings phase that dies ends
\* the process; no step of the paintings phase writes a Location or the
\* Location reference of a Painting; and a new process starts with
\* ingest_paintings.
C13_PhaseOrder ==
    [][/\ (pc' \in EnrichmentPcs /\ pc \notin EnrichmentPcs)
          => /\ pc = "p1_rows"
             /\ pc' = "p2_select"
             /\ committed' = Session
             /\ Commit(artists', paintings', locations') = Session
       /\ pc \in EnrichmentPcs => pc' \in EnrichmentPcs \cup Died \cup {"done"}
       /\ pc \in PaintingsPcs => pc' \in PaintingsPcs \cup Died \cup {"p2_select", "returned"}
       /\ pc \in EndedPcs => pc' \in EndedPcs \cup {"p1_query"}
       /\ (pc \in PaintingsPcs /\ pc' \notin Died)
          => /\ locations' = locations
             /\ KeepsLocation(paintings, paintings')
             /\ \A p \in paintings' : p.location_id /= None =>
                   \E o \in paintings : o.id = p.id /\ o.location_id = p.location_id]_vars

\* C13 witness: the first request of the first location query of a run has
\* been answered, the Paintings of the run being committed.
C13_Witness ==
    /\ pc = "p2_query"
    /\ k = 1
    /\ q = [requests |-> 1, last |-> "ok", status |-> "returned"]
    /\ committed = Session
    /\ Cardinality(committed.paintings) = 2
    /\ committed.locations = {}

ArtistsOf(store, p) == {a \in store.artists : a.id = p.artist_id}

\* C14: in the session and in the committed database every Painting has the
\* id of exactly one Artist row of the same store; while the rows of a
\* response are processed the Artist of the requested id is in the session,
\* named or not; and the commit of the phase stores it even when the
\* response had no rows.
C14_PaintingHasArtist ==
    /\ [](/\ \A store \in {Session, committed} : \A p \in store.paintings :
                Cardinality(ArtistsOf(store, p)) = 1
          /\ pc = "p1_rows"
             => /\ artist /= None
                /\ \E a \in artists : a.id = artist[1] /\ a.wikidata_id = artist_qid)
    /\ [][(pc = "p1_rows" /\ pc' \in {"p2_select", "returned"})
          => artist_qid \in Ids(committed'.artists)]_vars

\* C14 witness: the database holds a Painting of an Artist stored without a
\* name, and another Artist stored by a run whose response had no usable row.
C14_Witness ==
    /\ \E p \in committed.paintings : \E a \in ArtistsOf(committed, p) : a.name = None
    /\ \E b \in committed.artists : \A p \in committed.paintings : p.artist_id /= b.id

PaintingIds(T) == {p.id : p \in T}

\* C15: no step of ingest_paintings changes the Location table; a row step
\* keeps the Location reference of every Painting there was and gives every
\* Painting it adds an unset one; and inserted is, all through the loop and at
\* the commit, the number of Painting rows of the session that the database
\* did not hold when the phase started.
C15_PaintingsPhaseFrame ==
    /\ [](pc = "p1_rows"
          => /\ inserted = Cardinality(PaintingIds(paintings) \ PaintingIds(committed.paintings))
             /\ inserted = Cardinality(paintings) - Cardinality(committed.paintings))
    /\ [][/\ (pc \in PaintingsPcs /\ pc' \in PaintingsPcs \cup {"p2_select", "returned"})
             => /\ locations' = locations
                /\ committed'.locations = committed.locations
                /\ \A p \in paintings : \E n \in paintings' :
                      n.id = p.id /\ n.location_id = p.location_id
                /\ \A n \in paintings' :
                      n.id \notin PaintingIds(paintings) => n.location_id = None
          /\ (pc = "p1_rows" /\ pc' \in {"p2_select", "returned"})
             => inserted = Cardinality(PaintingIds(committed'.paintings)
                                       \ PaintingIds(committed.paintings))]_vars

\* C15 witness: three rows processed on a database that held one located
\* Painting; one Painting was inserted, and the last row updated a Painting
\* the database already held.
C15_Witness ==
    /\ pc = "p1_rows"
    /\ i = 3
    /\ inserted = 1
    /\ Cardinality(committed.paintings) = 1
    /\ \E p \in committed.paintings : p.location_id /= None
    /\ Truthy(row.painting)
    /\ qid_from_uri(row.painting[1]) \in Ids(committed.paintings)

IsPoint(c) == c /= None /\ \E lon \in FloatTokens : \E lat \in FloatTokens : c[1] = Point(lon, lat)

\* C16: when the first row of a location query names a Location that is not
\* stored, the Painting of the query afterwards refers to a Location of that
\* id; its latitude is the second number of the literal and its longitude the
\* first when the literal is Point(lon lat) with two numbers, and both are
\* null for an absent literal and for any other literal.
C16_CoordinatesInOrder ==
    [][(/\ pc = "p2_query"
        /\ pc' = "p2_loop"
        /\ ~NoLocation(bindings')
        /\ qid_from_uri(bindings'[1].location[1]) \notin Ids(locations))
       => \E p \in paintings' : \E l \in locations' :
             /\ p.id = todo[k]
             /\ p.location_id = Some(l.id)
             /\ l.wikidata_id = qid_from_uri(bindings'[1].location[1])
             /\ LET c == bindings'[1].coords
                IN IF IsPoint(c)
                   THEN /\ l.longitude = Some(FloatValue(c[1][2]))
                        /\ l.latitude = Some(FloatValue(c[1][4]))
                   ELSE /\ l.longitude = None
                        /\ l.latitude = None]_vars

BeginsCall == q' = NewCall /\ q /= NewCall

\* C17: the list of enrich_locations holds each Painting that is unset when
\* the phase starts once and no other; inside the phase a query begins only
\* for the Painting at the head of the rest of the list, which is still
\* unset, and its result moves the head by one; the phase is done only with
\* the list used up; and a phase that has started ends, done or dead.
C17_OneQueryPerUnsetPainting ==
    /\ [](pc \in {"p2_loop", "p2_query"}
          => \A n \in k..Len(todo) : todo[n] \in UnsetIds(paintings))
    /\ [][/\ (pc = "p2_select" /\ pc' = "p2_loop")
             => /\ Range(todo') = UnsetIds(committed.paintings)
                /\ Len(todo') = Cardinality(UnsetIds(committed.paintings))
                /\ k' = 1
          /\ (pc \in EnrichmentPcs /\ pc' \in EnrichmentPcs /\ BeginsCall)
             => /\ pc = "p2_loop"
                /\ pc' = "p2_query"
                /\ k \in 1..Len(todo)
                /\ UNCHANGED <<todo, k>>
          /\ (pc = "p2_query" /\ pc' = "p2_query") => UNCHANGED <<todo, k>>
          /\ (pc = "p2_query" /\ pc' = "p2_loop") => todo' = todo /\ k' = k + 1
          /\ (pc = "p2_loop" /\ pc' = "p2_loop") => UNCHANGED <<todo, k>>
          /\ (pc = "p2_loop" /\ pc' = "done") => k = Len(todo) + 1]_vars
    /\ (pc = "p2_select") ~> (pc = "done" \/ pc \in Died)

\* C17 witness: the one unset Painting, of another artist than the one of the
\* run, has had its query, and the Painting an earlier run located was not in
\* the list.
C17_Witness ==
    /\ pc = "p2_loop"
    /\ Len(todo) = 1
    /\ k = 2
    /\ \E x \in paintings : \E a \in artists :
          x.id = todo[1] /\ a.id = x.artist_id /\ a.wikidata_id /= artist_qid
    /\ \E p \in committed.paintings : p.location_id /= None /\ p.id \notin Range(todo)

ArtistStored == artist_qid \in Ids(artists)

\* C18: when the paintings query has returned, ingest_paintings goes on to
\* the artist-label query exactly when the session has no Artist of the
\* requested id; a query of the phase begins only at the start of the phase
\* and at that point; and with the Artist stored the phase goes straight to
\* the rows, no step of it changing an Artist row.
C18_LabelQueryIffArtistMissing ==
    [][/\ (pc = "p1_query" /\ pc' \in {"p1_label", "p1_rows"})
          => /\ q.status = "returned"
             /\ (pc' = "p1_label") = ~ArtistStored
             /\ (pc' = "p1_rows") = ArtistStored
       /\ (pc = "p1_query" /\ pc' = "p1_rows")
          => /\ artists' = artists
             /\ q' = IdleCall
             /\ \E a \in artists : a.wikidata_id = artist_qid /\ artist' = Some(a.id)
       /\ (pc' = "p1_label" /\ pc /= "p1_label") => pc = "p1_query"
       /\ (pc' \in PaintingsPcs /\ BeginsCall)
          => \/ pc \in EndedPcs /\ pc' = "p1_query"
             \/ pc = "p1_query" /\ pc' = "p1_label"
       /\ (pc \in PaintingsPcs /\ pc' \notin Died /\ ~(pc = "p1_label" /\ pc' = "p1_rows"))
          => artists' = artists
       /\ committed.artists \subseteq committed'.artists]_vars

\* C18 witness: the database holds two Artists, a run for one of them has had
\* its paintings query answered and is at the rows without another query.
C18_Witness ==
    /\ pc = "p1_rows"
    /\ i = 0
    /\ q = IdleCall
    /\ Cardinality(committed.artists) = 2
    /\ artist_qid \in Ids(committed.artists)
    /\ artists = committed.artists

Kept(T, U) == \A r \in T : \E n \in U : n.id = r.id /\ n.wikidata_id = r.wikidata_id

\* C19: no step takes a row out of the committed database: every Artist,
\* Painting and Location row it holds is there after the step, with the same
\* primary key and the same wikidata_id.
C19_NoDeletion ==
    [][/\ Kept(committed.artists, committed'.artists)
       /\ Kept(committed.paintings, committed'.paintings)
       /\ Kept(committed.locations, committed'.locations)
       /\ Ids(committed.artists) \subseteq Ids(committed'.artists)
       /\ Ids(committed.paintings) \subseteq Ids(committed'.paintings)
       /\ Ids(committed.locations) \subseteq Ids(committed'.locations)]_vars

\* C19 witness: a process has died on a database that holds two Artists, two
\* Paintings and a Location.
C19_Witness ==
    /\ pc \in Died
    /\ Cardinality(committed.artists) = 2
    /\ Cardinality(committed.paintings) = 2
    /\ committed.locations /= {}

YearRead(r) ==
    IF r.date = Some(Date("1889")) THEN Some(1889)
    ELSE IF r.date = Some(Date("1890")) THEN Some(1890)
    ELSE None

Stored(r) == {p \in paintings : Truthy(r.painting) /\ p.wikidata_id = qid_from_uri(r.painting[1])}

\* C20, as stated: after a row for a stored Painting is processed, the title
\* of the Painting is the label of the row when the row has one and the title
\* it had otherwise, and its year is the year of the row when the row has one
\* and the year it had otherwise.
C20_LatestNonNull ==
    [][RowStep
       => \A old \in Stored(row') : \E n \in paintings' :
             /\ n.id = old.id
             /\ n.title = (IF row'.paintingLabel /= None THEN row'.paintingLabel ELSE old.title)
             /\ n.year = (IF YearRead(row') /= None THEN YearRead(row') ELSE old.year)]_vars

\* C20, amended: after a row for a stored Painting is processed, the title of
\* the Painting is the label of the row when the row has one that is not the
\* empty string and the title it had otherwise, and its year is the year of
\* the row when the row has one and the year it had otherwise.
C20_LatestNonEmpty ==
    [][RowStep
       => \A old \in Stored(row') : \E n \in paintings' :
             /\ n.id = old.id
             /\ n.title = (IF row'.paintingLabel \notin {None, Some("")}
                           THEN row'.paintingLabel ELSE old.title)
             /\ n.year = (IF YearRead(row') /= None THEN YearRead(row') ELSE old.year)]_vars

\* C20 witness: the database holds a Painting titled Irises; the row just
\* processed names it with the label Sunflowers, which the session now holds.
C20_Witness ==
    /\ pc = "p1_rows"
    /\ i > 0
    /\ row.paintingLabel = Some("Sunflowers")
    /\ \E c \in committed.paintings : \E n \in paintings :
          /\ Truthy(row.painting)
          /\ c.wikidata_id = qid_from_uri(row.painting[1])
          /\ n.id = c.id
          /\ c.title = Some("Irises")
          /\ n.title = Some("Sunflowers")

====
